---- MODULE Spec2Model ----
(***************************************************************************)
(* A model of lifegpc-sha1 (src/sha1.ts): the SHA1 incremental hasher, its *)
(* compression engine hashBlocks, the hash() convenience function and      *)
(* hashWithHmac.                                                           *)
(*                                                                         *)
(* Words are the elements of an Int32Array: integers in -2^31 .. 2^31-1.   *)
(* Bytes are the elements of a Uint8Array: integers in 0 .. 255.  Arrays   *)
(* are sequences, so the element the code calls a[j] is a[j + 1] here.     *)
(***************************************************************************)
EXTENDS Integers, Sequences, FiniteSets, TLC

DIGEST_LENGTH == 20
BLOCK_SIZE == 64

\* The capacity of _buffer and of _temp.
BUFFER_SIZE == 128
TEMP_SIZE == 80

MinInt32 == -2147483647 - 1

\* A copy loop that does not stop at the end of the block.
MinUnbounded(a, b) == b

Min(a, b) == IF a < b THEN a ELSE b
Max(a, b) == IF a > b THEN a ELSE b

Zeros(n) == [i \in 1..n |-> 0]

\* Evaluation order.  An operator's argument is evaluated where the operator
\* uses it, each time it does.  Bind and Call evaluate first: Bind(e, Op) is
\* Op of the value of e, and Call2(Op, x, y) is Op of the values of x and y
\* (a local variable of the code, assigned once and read many times).
Bind(e, Op(_)) == CHOOSE r \in {Op(x) : x \in {e}} : TRUE
Call2(Op(_, _), x, y) == CHOOSE r \in {Op(a, b) : a \in {x}, b \in {y}} : TRUE
Call3(Op(_, _, _), x, y, z) == CHOOSE r \in {Op(a, b, c) : a \in {x}, b \in {y}, c \in {z}} : TRUE

(***************************************************************************)
(* The 32-bit operators of the language, on Int32 values.                  *)
(***************************************************************************)

\* a & b on two bytes, bit by bit.
BitAnd8(a, b) ==
      ((a % 2) * (b % 2))
    + ((a \div 2) % 2) * ((b \div 2) % 2) * 2
    + ((a \div 4) % 2) * ((b \div 4) % 2) * 4
    + ((a \div 8) % 2) * ((b \div 8) % 2) * 8
    + ((a \div 16) % 2) * ((b \div 16) % 2) * 16
    + ((a \div 32) % 2) * ((b \div 32) % 2) * 32
    + ((a \div 64) % 2) * ((b \div 64) % 2) * 64
    + ((a \div 128) % 2) * ((b \div 128) % 2) * 128

\* Tables of a & b, a ^ b and a | b for bytes a and b, at index 256 a + b + 1.
AndTab == SubSeq([i \in 1..65536 |-> BitAnd8((i - 1) \div 256, (i - 1) % 256)], 1, 65536)
XorTab == SubSeq([i \in 1..65536 |-> ((i - 1) \div 256) + ((i - 1) % 256) - 2 * AndTab[i]], 1, 65536)
OrTab == SubSeq([i \in 1..65536 |-> ((i - 1) \div 256) + ((i - 1) % 256) - AndTab[i]], 1, 65536)

\* A bitwise operator on two Int32 values, byte by byte through its table T;
\* the top byte carries the sign.
Bitwise(T, x, y) ==
      T[(x % 256) * 256 + (y % 256) + 1]
    + T[((x \div 256) % 256) * 256 + ((y \div 256) % 256) + 1] * 256
    + T[((x \div 65536) % 256) * 256 + ((y \div 65536) % 256) + 1] * 65536
    + (((T[((x \div 16777216) % 256) * 256 + ((y \div 16777216) % 256) + 1] + 128) % 256) - 128) * 16777216

Xor32(x, y) == Bitwise(XorTab, x, y)
And32(x, y) == Bitwise(AndTab, x, y)
Or32(x, y) == Bitwise(OrTab, x, y)
\* ~x
Not32(x) == -x - 1

\* x << c for 1 <= c <= 31: the low 31 - c bits move up, bit 31 - c becomes the sign.
Shl(x, c) ==
    (x % (2 ^ (31 - c))) * (2 ^ c) + (IF (x \div (2 ^ (31 - c))) % 2 = 1 THEN MinInt32 ELSE 0)

\* x >>> n for 2 <= n <= 31.
Ushr(x, n) ==
    IF n = 31 THEN (IF x < 0 THEN 1 ELSE 0)
    ELSE IF x >= 0 THEN x \div (2 ^ n) ELSE (x \div (2 ^ n)) + (2 ^ (32 - n))

\* x >> n (sign-propagating).
Sar(x, n) == x \div (2 ^ n)

\* JavaScript's % and its truncation (x / d) | 0, for d > 0.
Rem(x, d) == IF x >= 0 THEN x % d ELSE -((-x) % d)
TruncDiv(x, d) == IF x >= 0 THEN x \div d ELSE -((-x) \div d)

\* Byte k (0 the lowest) of an Int32: what storing value >>> 8k in a Uint8Array keeps.
ByteOf(value, k) == (value \div (2 ^ (8 * k))) % 256

\* p[j] of a Uint8Array read as a number operand: 0 past the end (undefined).
At(p, j) == IF j >= 0 /\ j < Len(p) THEN p[j + 1] ELSE 0

\* @stablelib/binary readUint32BE, stored into an Int32Array.
\* A little-endian read.
readUint32LE(p, j) ==
    Call2(Or32,
          Call2(Or32, Shl(At(p, j + 3), 24), Shl(At(p, j + 2), 16)),
          Call2(Or32, Shl(At(p, j + 1), 8), At(p, j)))

readUint32BE(p, j) ==
    (((At(p, j) + 128) % 256) - 128) * 16777216 + At(p, j + 1) * 65536 + At(p, j + 2) * 256 + At(p, j + 3)

\* @stablelib/binary writeUint32BE: four bytes, high first, at out[offset ..];
\* a Uint8Array ignores a write past its end.
writeUint32BE(value, out, offset) ==
    SubSeq([i \in 1..Len(out) |->
               IF i > offset /\ i <= offset + 4 THEN ByteOf(value, 3 - (i - 1 - offset))
               ELSE out[i]], 1, Len(out))

(***************************************************************************)
(* The compression engine.                                                 *)
(***************************************************************************)

leftrotate(x, c) == Call2(Or32, Shl(x, c), Ushr(x, 32 - c))

\* safeAdd that loses the carry out of the low half.
safeAddNoCarry(x, y) ==
    Or32(Shl(Sar(x, 16) + Sar(y, 16), 16), ((x % 65536) + (y % 65536)) % 65536)

\* A saturating addition.
safeAddSaturated(x, y) ==
    IF x > 0 /\ y > 0 /\ x > 2147483647 - y THEN 2147483647
    ELSE IF x < 0 /\ y < 0 /\ x < MinInt32 - y THEN MinInt32
    ELSE x + y

safeAdd(x, y) ==
    LET lsw == (x % 65536) + (y % 65536)
        msw == Sar(x, 16) + Sar(y, 16) + Sar(lsw, 16)
    IN Call2(Or32, Shl(msw, 16), lsw % 65536)

\* The round constants as Int32 values (0x5a827999, 0x6ed9eba1, 0x8f1bbcdc, 0xca62c1d6).
K0 == 1518500249
K20 == 1859775393
K40 == -1894007588
K60 == -899497514

\* w[lo - 1 .. hi - 2] of the schedule (elements lo .. hi - 1 here), appended to the
\* elements before them.  The range is halved, the first half before the second.
RECURSIVE Schedule(_, _, _)
Schedule(w, lo, hi) ==
    IF hi - lo = 1
    THEN Append(w, Call2(leftrotate,
                         Call2(Xor32, Call2(Xor32, Call2(Xor32, w[lo - 3], w[lo - 8]), w[lo - 14]),
                               w[lo - 16]),
                         1))
    ELSE Bind(Schedule(w, lo, (lo + hi) \div 2), LAMBDA l : Schedule(l, (lo + hi) \div 2, hi))

\* One round i of the 80: s = <<a, b, c, d, e>>.
Round(w, s, i) ==
    LET a == s[1]
        b == s[2]
        c == s[3]
        d == s[4]
        e == s[5]
        f == IF i >= 0 /\ i <= 19 THEN Call2(Or32, Call2(And32, b, c), Call2(And32, Not32(b), d))
             ELSE IF i >= 20 /\ i <= 39 THEN Call2(Xor32, Call2(Xor32, b, c), d)
             ELSE IF i >= 40 /\ i <= 59
                  THEN Call2(Or32, Call2(Or32, Call2(And32, b, c), Call2(And32, b, d)),
                             Call2(And32, c, d))
             ELSE Call2(Xor32, Call2(Xor32, b, c), d)
        k == IF i >= 0 /\ i <= 19 THEN K0
             ELSE IF i >= 20 /\ i <= 39 THEN K20
             ELSE IF i >= 40 /\ i <= 59 THEN K40
             ELSE K60
        temp == Call2(safeAdd, leftrotate(a, 5),
                      Call2(safeAdd, f, Call2(safeAdd, e, Call2(safeAdd, k, w[i + 1]))))
    IN <<temp, a, leftrotate(b, 30), c, d>>

\* Rounds lo .. hi - 1, the first half before the second.
RECURSIVE Rounds(_, _, _, _)
Rounds(w, s, lo, hi) ==
    IF hi - lo = 1 THEN Round(w, s, lo)
    ELSE Bind(Rounds(w, s, lo, (lo + hi) \div 2), LAMBDA l : Rounds(w, l, (lo + hi) \div 2, hi))

\* One iteration of hashBlocks' while loop: the block at p[pos .. pos + 63].
Block(v, p, pos) ==
    Bind(Call3(Schedule, SubSeq([i \in 1..16 |-> readUint32BE(p, pos + (i - 1) * 4)], 1, 16),
               17, 81),
         LAMBDA w :
            Bind(Rounds(w, v, 0, 80),
                 LAMBDA r :
                    [w |-> w,
                     v |-> <<safeAdd(v[1], r[1]), safeAdd(v[2], r[2]), safeAdd(v[3], r[3]),
                             safeAdd(v[4], r[4]), safeAdd(v[5], r[5])>>]))

\* The while loop of hashBlocks; read collects the blocks it has consumed.
RECURSIVE hashBlocksLoop(_, _, _, _, _, _)
hashBlocksLoop(w, v, p, pos, len, read) ==
    IF len >= 64
    THEN Bind(Block(v, p, pos),
              LAMBDA b :
                 hashBlocksLoop(b.w, b.v, p, pos + 64, len - 64,
                                Append(read, SubSeq([j \in 1..64 |-> At(p, pos + j - 1)], 1, 64))))
    ELSE [w |-> w, v |-> v, pos |-> pos, read |-> read]

\* hashBlocks with an if in place of its while.
hashBlocksOnce(w, v, p, pos, len) ==
    hashBlocksLoop(w, v, p, pos, IF len >= 64 THEN 64 ELSE len, <<>>)

\* hashBlocks that also takes a last incomplete block.
hashBlocksRoundUp(w, v, p, pos, len) == hashBlocksLoop(w, v, p, pos, len + 63, <<>>)

hashBlocks(w, v, p, pos, len) == hashBlocksLoop(w, v, p, pos, len, <<>>)

(***************************************************************************)
(* The SHA1 class.  A hasher is a record of its fields:                    *)
(*   state (Int32Array(5)), temp (Int32Array(80)), buffer (Uint8Array(128)),*)
(*   bufferLength, bytesHashed, finished.                                  *)
(* A method that may throw returns a record with the field error: the      *)
(* message of the Error thrown, or NoError for a normal return.            *)
(***************************************************************************)

NoError == ""
UpdateError == "SHA1: can't update because hash was finished."
SaveError == "SHA1: cannot save finished state"

\* The Int32 values of 0x67452301, 0xefcdab89, 0x98badcfe, 0x10325476, 0xc3d2e1f0.
initState == <<1732584193, -271733879, -1732584194, 271733878, -1009589776>>

\* reset that leaves _bufferLength as it is.
resetKeepBufferLength(h) ==
    [h EXCEPT !.state = initState, !.bytesHashed = 0, !.finished = FALSE]

reset(h) ==
    [h EXCEPT !.state = initState, !.bufferLength = 0, !.bytesHashed = 0, !.finished = FALSE]

\* The field initialisers and the constructor.
NewSHA1 ==
    reset([state |-> Zeros(5), temp |-> Zeros(TEMP_SIZE), buffer |-> Zeros(BUFFER_SIZE),
           bufferLength |-> 0, bytesHashed |-> 0, finished |-> FALSE])

\* clean that only resets.
cleanNoWipe(h) == reset(h)

\* @stablelib/wipe zeroes the two arrays.
clean(h) == reset([h EXCEPT !.buffer = Zeros(BUFFER_SIZE), !.temp = Zeros(TEMP_SIZE)])

\* update(data, dataLength) past its check of _finished.  fed: the blocks given
\* to hashBlocks, in order; wrote: the highest index of _buffer stored to, -1
\* when none was.
Absorb(h, data, dataLength) ==
    LET \* the first while loop, entered when _bufferLength > 0
        n1 == IF h.bufferLength > 0 /\ h.bufferLength < BLOCK_SIZE /\ dataLength > 0
              THEN Min(BLOCK_SIZE - h.bufferLength, dataLength) ELSE 0
        bufferLength1 == h.bufferLength + n1
        dataLength1 == dataLength - n1
        full == h.bufferLength > 0 /\ bufferLength1 = BLOCK_SIZE
        bufferLength2 == IF full THEN 0 ELSE bufferLength1
        \* whole blocks straight from data
        direct == dataLength1 >= BLOCK_SIZE
        dataLength2 == IF direct THEN dataLength1 % BLOCK_SIZE ELSE dataLength1
        \* the last while loop copies the tail
        n3 == Max(dataLength2, 0)
    IN Bind(SubSeq([i \in 1..BUFFER_SIZE |->
                      IF i > h.bufferLength /\ i <= h.bufferLength + n1
                      THEN At(data, i - 1 - h.bufferLength) ELSE h.buffer[i]], 1, BUFFER_SIZE),
       LAMBDA buffer1 :
       Bind(IF full THEN hashBlocks(h.temp, h.state, buffer1, 0, BLOCK_SIZE)
            ELSE [w |-> h.temp, v |-> h.state, pos |-> 0, read |-> <<>>],
       LAMBDA hb1 :
       Bind(IF direct THEN hashBlocks(hb1.w, hb1.v, data, n1, dataLength1)
            ELSE [w |-> hb1.w, v |-> hb1.v, pos |-> n1, read |-> <<>>],
       LAMBDA hb2 :
          [h |-> [state |-> hb2.v, temp |-> hb2.w,
                  buffer |-> SubSeq([i \in 1..BUFFER_SIZE |->
                                       IF i > bufferLength2 /\ i <= bufferLength2 + n3
                                       THEN At(data, hb2.pos + i - 1 - bufferLength2)
                                       ELSE buffer1[i]], 1, BUFFER_SIZE),
                  bufferLength |-> bufferLength2 + n3,
                  bytesHashed |-> h.bytesHashed + dataLength,
                  finished |-> FALSE],
           fed |-> hb1.read \o hb2.read,
           wrote |-> Max(IF n1 > 0 THEN h.bufferLength + n1 - 1 ELSE -1,
                         IF n3 > 0 THEN bufferLength2 + n3 - 1 ELSE -1),
           error |-> NoError])))

\* update without its check of _finished.
updateUnchecked(h, data, dataLength) == Absorb(h, data, dataLength)

\* update that leaves _bytesHashed as it is.
updateNoCount(h, data, dataLength) ==
    IF h.finished THEN [h |-> h, fed |-> <<>>, wrote |-> -1, error |-> UpdateError]
    ELSE [Absorb(h, data, dataLength) EXCEPT !.h.bytesHashed = h.bytesHashed]

update(h, data, dataLength) ==
    IF h.finished THEN [h |-> h, fed |-> <<>>, wrote |-> -1, error |-> UpdateError]
    ELSE Absorb(h, data, dataLength)

\* Padding that never takes the second block.
padLengthOneBlock(bytesHashed) == 64

\* const padLength of finish.
padLength(bytesHashed) == IF Rem(bytesHashed, 64) < 56 THEN 64 ELSE 128

\* The body of finish's if (!this._finished): pad, compress and set _finished.
\* fed: the blocks given to hashBlocks; wrote: the highest index of _buffer
\* stored to.
PadAndCompress(h) ==
    LET bytesHashed == h.bytesHashed
        left == h.bufferLength
        bitLenHi == TruncDiv(bytesHashed, 536870912)
        bitLenLo == Shl(bytesHashed, 3)
        padLen == padLength(bytesHashed)
    IN Bind(SubSeq([i \in 1..BUFFER_SIZE |->
                      IF i - 1 = left THEN 128
                      ELSE IF i - 1 >= left + 1 /\ i - 1 < padLen - 8 THEN 0
                      ELSE h.buffer[i]], 1, BUFFER_SIZE),
       LAMBDA zeroed :
       Bind(Call3(writeUint32BE, bitLenLo, Call3(writeUint32BE, bitLenHi, zeroed, padLen - 8),
                  padLen - 4),
       LAMBDA padded :
       Bind(hashBlocks(h.temp, h.state, padded, 0, padLen),
       LAMBDA hb :
          [h |-> [h EXCEPT !.state = hb.v, !.temp = hb.w, !.buffer = padded, !.finished = TRUE],
           fed |-> hb.read,
           wrote |-> Max(left, padLen - 1)])))

\* The operand of a 32-bit operator, given as the two 16-bit halves
\* <<high, low>> of its low 32 bits, is converted to Int32 (ToInt32).
ToInt32(u) == (((u[1] + 32768) % 65536) - 32768) * 65536 + u[2]

\* A byte count past the Int32 range: the exact integer
\*   n[1] * 2^48 + n[2] * 2^32 + n[3] * 2^16 + n[4]
\* of the Number type, below 2^61 (its bit length fits 64 bits).
\* bitLenHi that stores no high word.
bitLenHiNone(n) == 0

\* const bitLenHi of finish: (bytesHashed / 0x20000000) | 0, the quotient
\* truncated to an integer and converted to Int32.
bitLenHi(n) ==
    ToInt32(<<n[1] * 8 + n[2] \div 8192, (n[2] % 8192) * 8 + n[3] \div 8192>>)

\* const bitLenLo of finish: bytesHashed << 3, on bytesHashed converted to Int32.
bitLenLo(n) == Shl(ToInt32(<<n[3], n[4]>>), 3)

\* finish without its check of _finished.
FinalizeAlways(h) == PadAndCompress(h)

\* finish that does not set _finished.
FinalizeNoFlag(h) ==
    IF h.finished THEN [h |-> h, fed |-> <<>>, wrote |-> -1]
    ELSE [PadAndCompress(h) EXCEPT !.h.finished = FALSE]

\* The first part of finish: nothing on a hasher already finished.
Finalize(h) ==
    IF h.finished THEN [h |-> h, fed |-> <<>>, wrote |-> -1] ELSE PadAndCompress(h)

\* The second part of finish: the five state words into out.
WriteDigest(state, out) ==
    Call3(writeUint32BE, state[5],
      Call3(writeUint32BE, state[4],
        Call3(writeUint32BE, state[3],
          Call3(writeUint32BE, state[2],
            Call3(writeUint32BE, state[1], out, 0), 4), 8), 12), 16)

finish(h, out) ==
    Bind(Finalize(h),
         LAMBDA f : [h |-> f.h, fed |-> f.fed, wrote |-> f.wrote,
                     out |-> WriteDigest(f.h.state, out)])

digest(h) == finish(h, Zeros(DIGEST_LENGTH))

\* The value of SavedState.buffer when no buffer was copied (undefined).
NoBuffer == <<>>

\* An array of a SavedState that is the hasher's own array, not a copy of it:
\* what it holds is what the hasher's array holds.  saveState makes its
\* arrays with new Int32Array(this._state) and new Uint8Array(this._buffer),
\* which are copies.
Shared == <<-1>>

\* What a SavedState holds, h being the hasher.
Contents(savedState, h) ==
    [savedState EXCEPT !.state = IF @ = Shared THEN h.state ELSE @,
                       !.buffer = IF @ = Shared THEN h.buffer ELSE @]

\* saveState that puts its own arrays in the SavedState.
saveStateShared(h) ==
    IF h.finished THEN [saved |-> <<>>, error |-> SaveError]
    ELSE [saved |-> <<[state |-> Shared,
                       buffer |-> IF h.bufferLength > 0 THEN Shared ELSE NoBuffer,
                       bufferLength |-> h.bufferLength,
                       bytesHashed |-> h.bytesHashed]>>,
          error |-> NoError]

\* saveState without its check of _finished.
saveStateUnchecked(h) ==
    [saved |-> <<[state |-> h.state,
                  buffer |-> IF h.bufferLength > 0 THEN h.buffer ELSE NoBuffer,
                  bufferLength |-> h.bufferLength,
                  bytesHashed |-> h.bytesHashed]>>,
     error |-> NoError]

saveState(h) ==
    IF h.finished THEN [saved |-> <<>>, error |-> SaveError]
    ELSE [saved |-> <<[state |-> h.state,
                       buffer |-> IF h.bufferLength > 0 THEN h.buffer ELSE NoBuffer,
                       bufferLength |-> h.bufferLength,
                       bytesHashed |-> h.bytesHashed]>>,
          error |-> NoError]

\* restoreState that leaves _bufferLength as it is.
restoreStateNoLength(h, savedState) ==
    [h EXCEPT !.state = savedState.state,
              !.buffer = IF savedState.buffer # NoBuffer THEN savedState.buffer ELSE h.buffer,
              !.bytesHashed = savedState.bytesHashed,
              !.finished = FALSE]

\* restoreState that does not copy the buffer back.
restoreStateNoBuffer(h, savedState) ==
    [h EXCEPT !.state = savedState.state,
              !.bufferLength = savedState.bufferLength,
              !.bytesHashed = savedState.bytesHashed,
              !.finished = FALSE]

restoreState(h, savedState) ==
    [h EXCEPT !.state = savedState.state,
              !.bufferLength = savedState.bufferLength,
              !.buffer = IF savedState.buffer # NoBuffer THEN savedState.buffer ELSE h.buffer,
              !.bytesHashed = savedState.bytesHashed,
              !.finished = FALSE]

cleanSavedState(savedState) ==
    [state |-> Zeros(5),
     buffer |-> IF savedState.buffer # NoBuffer THEN Zeros(Len(savedState.buffer)) ELSE NoBuffer,
     bufferLength |-> 0,
     bytesHashed |-> 0]

\* The hasher after cleanSavedState(savedState): the wipe of an array of the
\* SavedState that is the hasher's own array zeroes the hasher's.
wipeShared(h, savedState) ==
    [h EXCEPT !.state = IF savedState.state = Shared THEN Zeros(5) ELSE @,
              !.buffer = IF savedState.buffer = Shared THEN Zeros(BUFFER_SIZE) ELSE @]

(***************************************************************************)
(* The hasher in use: one SHA1 instance and the calls made on it.          *)
(*   h        the instance                                                 *)
(*   out      the array the last finish wrote, or digest returned; <<>>    *)
(*            after any other call                                         *)
(*   op       the method called last ("new" after construction)            *)
(*   error    the message of the Error the last call threw, or NoError     *)
(*   snaps    the SavedState objects returned by saveState so far          *)
(*   trace    history of h since its last reset, followed through          *)
(*            saveState and restoreState:                                  *)
(*              msg      the bytes given to update                         *)
(*              chunks   the lengths of the data of the update calls that  *)
(*                       gave any                                          *)
(*              blocks   the 64-byte blocks given to hashBlocks            *)
(*              padBlocks  how many of them the finalizing finish gave     *)
(*              finishes how many finish or digest calls were made since   *)
(*                       the last reset, clean or restoreState             *)
(*              tracked  FALSE once h was restored from a wiped snapshot   *)
(*              reused   h was finished and then reset before this message *)
(*              restored the index in snaps of the snapshot h was restored *)
(*                       from since its last reset, 0 if none              *)
(*              revived  that restoreState was called on a finished h      *)
(*              wrote    the highest index of _buffer that update and      *)
(*                       finish stored to, -1 when they stored nothing     *)
(*   snapTrace for each element of snaps: the instance and the trace when  *)
(*            it was saved, and whether cleanSavedState has wiped it       *)
(*   calls    the numbers of update, reset or clean, and restoreState      *)
(*            calls made                                                   *)
(*   hashCall a call of hash(data): its argument, the statement it is at   *)
(*            and its local digest; idle when the instance is used directly*)
(* An action binds the result of the call it models with \E over a         *)
(* singleton set, so that the call is evaluated once.                      *)
(***************************************************************************)
VARIABLES h, out, op, error, snaps, trace, snapTrace, calls, hashCall

vars == <<h, out, op, error, snaps, trace, snapTrace, calls, hashCall>>

\* The bounds of the exploration.
MaxUpdates == 2
MaxResets == 1
MaxSnapshots == 1
MaxRestores == 1
MaxFinishes == 2

\* The data of a call of update: len bytes that depend on len and on the position.
Data(len) == [j \in 1..len |-> (len * 7 + j * 13 + 120) % 256]

ChunkLens == {0, 1, 63}
Chunks == {Data(len) : len \in ChunkLens}

\* The lengths of the arrays given to finish: shorter than, equal to and
\* longer than the digest.
OutLens == {10, DIGEST_LENGTH, 24}

NewTrace ==
    [msg |-> <<>>, chunks |-> <<>>, blocks |-> <<>>, padBlocks |-> 0, finishes |-> 0,
     tracked |-> TRUE, reused |-> FALSE, restored |-> 0, revived |-> FALSE, wrote |-> -1]

NoCall == [pc |-> "idle", data |-> <<>>, digest |-> <<>>]

Init ==
    /\ h = NewSHA1
    /\ out = <<>>
    /\ op = "new"
    /\ error = NoError
    /\ snaps = <<>>
    /\ trace = NewTrace
    /\ snapTrace = <<>>
    /\ calls = [update |-> 0, reset |-> 0, restore |-> 0]
    /\ hashCall = NoCall

\* h.update(data, dataLength).  The bytes it is given are the first dataLength
\* elements of data; an element past the end of data reads as 0.
CallUpdateLen(data, dataLength) ==
    /\ \E r \in {update(h, data, dataLength)} :
          /\ h' = r.h
          /\ error' = r.error
          /\ trace' = IF r.error = NoError
                      THEN [trace EXCEPT !.msg = @ \o [j \in 1..dataLength |-> At(data, j - 1)],
                                         !.chunks = IF dataLength > 0 THEN Append(@, dataLength) ELSE @,
                                         !.blocks = @ \o r.fed,
                                         !.wrote = Max(@, r.wrote)]
                      ELSE trace
          /\ calls' = IF r.error = NoError THEN [calls EXCEPT !.update = @ + 1] ELSE calls
    /\ op' = "update"
    /\ out' = <<>>
    /\ UNCHANGED <<snaps, snapTrace>>

\* h.update(data), with the default dataLength = data.length.
CallUpdate(data) == CallUpdateLen(data, Len(data))

Update(data) ==
    /\ h.finished \/ calls.update < MaxUpdates
    /\ CallUpdate(data)
    /\ UNCHANGED hashCall

\* finish(out) on a zeroed array of one of the lengths, and digest(), which
\* calls finish on a new array of DIGEST_LENGTH bytes.  The two parts of finish
\* are applied here one after the other, the first once for all the arrays.
Finish ==
    /\ trace.finishes < MaxFinishes
    /\ \E f \in {Finalize(h)} :
       /\ h' = f.h
       /\ trace' = [trace EXCEPT !.blocks = @ \o f.fed, !.padBlocks = @ + Len(f.fed),
                                 !.finishes = @ + 1, !.wrote = Max(@, f.wrote)]
       /\ \/ \E outLen \in OutLens :
               /\ out' = WriteDigest(f.h.state, Zeros(outLen))
               /\ op' = "finish"
          \/ /\ out' = WriteDigest(f.h.state, Zeros(DIGEST_LENGTH))
             /\ op' = "digest"
       /\ error' = NoError
       /\ UNCHANGED <<snaps, snapTrace, calls, hashCall>>

\* h.digest()
CallDigest ==
    /\ trace.finishes < MaxFinishes
    /\ \E r \in {digest(h)} :
          /\ h' = r.h
          /\ out' = r.out
          /\ trace' = [trace EXCEPT !.blocks = @ \o r.fed, !.padBlocks = @ + Len(r.fed),
                                    !.finishes = @ + 1, !.wrote = Max(@, r.wrote)]
    /\ op' = "digest"
    /\ error' = NoError
    /\ UNCHANGED <<snaps, snapTrace, calls>>

Digest == CallDigest /\ UNCHANGED hashCall

Reset ==
    /\ calls.reset < MaxResets
    /\ h' = reset(h)
    /\ trace' = [NewTrace EXCEPT !.reused = h.finished]
    /\ calls' = [calls EXCEPT !.reset = @ + 1]
    /\ op' = "reset"
    /\ error' = NoError
    /\ out' = <<>>
    /\ UNCHANGED <<snaps, snapTrace, hashCall>>

\* h.clean()
CallClean ==
    /\ h' = clean(h)
    /\ trace' = [NewTrace EXCEPT !.reused = h.finished]
    /\ calls' = [calls EXCEPT !.reset = @ + 1]
    /\ op' = "clean"
    /\ error' = NoError
    /\ out' = <<>>
    /\ UNCHANGED <<snaps, snapTrace>>

Clean ==
    /\ calls.reset < MaxResets
    /\ CallClean
    /\ UNCHANGED hashCall

SaveState ==
    /\ h.finished \/ Len(snaps) < MaxSnapshots
    /\ \E r \in {saveState(h)} :
          /\ snaps' = snaps \o r.saved
          /\ snapTrace' = IF r.error = NoError
                          THEN Append(snapTrace, [h |-> h, trace |-> trace, wiped |-> FALSE])
                          ELSE snapTrace
          /\ error' = r.error
    /\ op' = "saveState"
    /\ out' = <<>>
    /\ UNCHANGED <<h, trace, calls, hashCall>>

\* h.restoreState(snaps[i])
CallRestoreState(i) ==
    /\ h' = restoreState(h, Contents(snaps[i], h))
    /\ trace' = [snapTrace[i].trace EXCEPT !.tracked = @ /\ ~snapTrace[i].wiped,
                                           !.restored = i, !.revived = h.finished]
    /\ calls' = [calls EXCEPT !.restore = @ + 1]
    /\ op' = "restoreState"
    /\ error' = NoError
    /\ out' = <<>>
    /\ UNCHANGED <<snaps, snapTrace>>

RestoreState(i) ==
    /\ calls.restore < MaxRestores
    /\ CallRestoreState(i)
    /\ UNCHANGED hashCall

CleanSavedState(i) ==
    /\ ~snapTrace[i].wiped
    /\ \E c \in {cleanSavedState(Contents(snaps[i], h))} :
          snaps' = [snaps EXCEPT ![i] =
                       [c EXCEPT !.state = IF snaps[i].state = Shared THEN Shared ELSE @,
                                 !.buffer = IF snaps[i].buffer = Shared THEN Shared ELSE @]]
    /\ h' = wipeShared(h, snaps[i])
    /\ snapTrace' = [snapTrace EXCEPT ![i].wiped = TRUE]
    /\ op' = "cleanSavedState"
    /\ error' = NoError
    /\ out' = <<>>
    /\ UNCHANGED <<trace, calls, hashCall>>

Next ==
    \/ \E data \in Chunks : Update(data)
    \/ Finish
    \/ Reset
    \/ Clean
    \/ SaveState
    \/ \E i \in 1..Len(snaps) : RestoreState(i)
    \/ \E i \in 1..Len(snaps) : CleanSavedState(i)

Spec == Init /\ [][Next]_vars

(***************************************************************************)
(* Chunked hashing: one message given to update in chunks of many lengths, *)
(* then digest().                                                          *)
(***************************************************************************)

MaxChunks == 2
MaxBytes == 256

StreamLens == {0, 1, 55, 56, 63, 64, 65, 128}

StreamUpdate(data) ==
    /\ h.finished \/ calls.update < MaxChunks
    /\ Len(trace.msg) + Len(data) <= MaxBytes
    /\ CallUpdate(data)
    /\ UNCHANGED hashCall

NextStream ==
    \/ \E len \in StreamLens : StreamUpdate(Data(len))
    \/ Digest

SpecStream == Init /\ [][NextStream]_vars

(***************************************************************************)
(* Snapshots: update with an explicit dataLength (shorter than, equal to   *)
(* and longer than data), digest, reset, saveState, restoreState more than *)
(* once, cleanSavedState.                                                  *)
(***************************************************************************)

MaxSnapRestores == 2

\* The arguments of update: <<data, dataLength>>.
SnapCalls == {<<Data(3), 2>>, <<Data(2), 3>>}

SnapUpdate(data, dataLength) ==
    /\ h.finished \/ calls.update < MaxUpdates
    /\ CallUpdateLen(data, dataLength)
    /\ UNCHANGED hashCall

SnapRestore(i) ==
    /\ calls.restore < MaxSnapRestores
    /\ CallRestoreState(i)
    /\ UNCHANGED hashCall

NextSnap ==
    \/ \E c \in SnapCalls : SnapUpdate(c[1], c[2])
    \/ Digest
    \/ Reset
    \/ SaveState
    \/ \E i \in 1..Len(snaps) : SnapRestore(i)
    \/ \E i \in 1..Len(snaps) : CleanSavedState(i)

SpecSnap == Init /\ [][NextSnap]_vars

(***************************************************************************)
(* hash(data): new SHA1(), h.update(data), h.digest(), h.clean(), return.  *)
(***************************************************************************)

\* The one-call composition: the instance after update and digest, the blocks
\* compressed and the digest returned.
hash(data) ==
    Bind(update(NewSHA1, data, Len(data)),
         LAMBDA u :
            Bind(digest(u.h),
                 LAMBDA d : [h |-> d.h, blocks |-> u.fed \o d.fed, digest |-> d.out]))

\* The arguments of the tests (UTF-8 bytes of the strings), and others.
MsgFirefox ==
    <<70, 105, 114, 101, 102, 111, 120, 32, 118, 115, 32, 67, 104, 114, 111, 109, 101>>
MsgDigits ==
    <<49, 50, 51, 52, 53, 54, 55, 56, 57, 48, 49, 50, 51, 52, 53, 54, 55, 56, 57, 48, 49,
      50, 51, 52, 53, 54, 55, 56, 57, 48, 49, 50, 51, 52, 53, 54, 55, 56, 57, 48, 49,
      50, 51, 52, 53, 54, 55, 56, 57, 48, 49, 50, 51, 52, 53, 54, 55, 56, 57, 48>>
MsgHanazawa ==
    <<232, 138, 177, 230, 190, 164, 233, 166, 153, 232, 143, 156>>
MsgOgura ==
    <<229, 176, 143, 229, 128, 137, 229, 148, 175>>

HashLens == {1, 55, 56, 63, 64, 65, 119, 120, 128}
EdgeBytes == {0, 127, 128, 255}

Messages ==
    {<<>>, <<32, 48>>, MsgFirefox, MsgDigits, MsgHanazawa, MsgOgura}
    \cup {Data(len) : len \in HashLens}
    \cup {<<a>> : a \in EdgeBytes}
    \cup {<<a, b>> : a \in EdgeBytes, b \in EdgeBytes}

InitHash ==
    /\ h = NewSHA1
    /\ out = <<>>
    /\ op = "new"
    /\ error = NoError
    /\ snaps = <<>>
    /\ trace = NewTrace
    /\ snapTrace = <<>>
    /\ calls = [update |-> 0, reset |-> 0, restore |-> 0]
    /\ \E data \in Messages : hashCall = [pc |-> "update", data |-> data, digest |-> <<>>]

HashUpdate ==
    /\ hashCall.pc = "update"
    /\ CallUpdate(hashCall.data)
    /\ hashCall' = [hashCall EXCEPT !.pc = "digest"]

HashDigest ==
    /\ hashCall.pc = "digest"
    /\ CallDigest
    /\ hashCall' = [hashCall EXCEPT !.pc = "clean", !.digest = out']

HashClean ==
    /\ hashCall.pc = "clean"
    /\ CallClean
    /\ hashCall' = [hashCall EXCEPT !.pc = "return"]

NextHash ==
    \/ HashUpdate
    \/ HashDigest
    \/ HashClean

SpecHash == InitHash /\ [][NextHash]_vars

(***************************************************************************)
(* hashWithHmac(key, data): return hmac(SHA1, key, data).  hmac is the     *)
(* function of @stablelib/hmac, which is not part of the sources; it is    *)
(* taken here as section 4.3 of the specification states it, over the      *)
(* hash of the program:                                                    *)
(*   a key longer than the block size is replaced by its digest; the key   *)
(*   is padded with zero bytes to the block size; the inner pad is the key *)
(*   XOR 0x36 repeated, the outer pad the key XOR 0x5C repeated; the       *)
(*   result is Hash(outerPad ++ Hash(innerPad ++ message)).                *)
(* hashCall holds the call: its arguments, the step it is at, the padded   *)
(* key, the inner digest and the result.                                   *)
(***************************************************************************)

IPAD == 54
OPAD == 92

hmacKey(key) ==
    Bind(IF Len(key) > BLOCK_SIZE THEN hash(key).digest ELSE key,
         LAMBDA k : SubSeq([i \in 1..BLOCK_SIZE |-> At(k, i - 1)], 1, BLOCK_SIZE))

hmacPad(pad, c) ==
    SubSeq([i \in 1..BLOCK_SIZE |-> Xor32(pad[i], c)], 1, BLOCK_SIZE)

hmacInner(pad, data) == hash(hmacPad(pad, IPAD) \o data).digest

hmacOuter(pad, inner) == hash(hmacPad(pad, OPAD) \o inner).digest

hmac(key, data) ==
    Bind(hmacKey(key),
         LAMBDA pad : Bind(hmacInner(pad, data), LAMBDA inner : hmacOuter(pad, inner)))

hashWithHmac(key, data) == hmac(key, data)

MsgKey == <<107, 101, 121>>
MsgHelloworld == <<104, 101, 108, 108, 111, 119, 111, 114, 108, 100>>

HmacKeys == {<<>>, MsgKey, MsgOgura, <<32, 48>>} \cup {Data(len) : len \in {1, 20, 64, 65, 100}}

HmacData == {<<>>, MsgHelloworld, MsgHanazawa, <<32, 49>>, Data(64)}

InitHmac ==
    /\ h = NewSHA1
    /\ out = <<>>
    /\ op = "new"
    /\ error = NoError
    /\ snaps = <<>>
    /\ trace = NewTrace
    /\ snapTrace = <<>>
    /\ calls = [update |-> 0, reset |-> 0, restore |-> 0]
    /\ \E key \in HmacKeys, data \in HmacData :
          hashCall = [pc |-> "key", key |-> key, data |-> data,
                      pad |-> <<>>, inner |-> <<>>, digest |-> <<>>]

HmacKey ==
    /\ hashCall.pc = "key"
    /\ \E pad \in {hmacKey(hashCall.key)} :
          hashCall' = [hashCall EXCEPT !.pc = "inner", !.pad = pad]
    /\ UNCHANGED <<h, out, op, error, snaps, trace, snapTrace, calls>>

HmacInner ==
    /\ hashCall.pc = "inner"
    /\ \E inner \in {hmacInner(hashCall.pad, hashCall.data)} :
          hashCall' = [hashCall EXCEPT !.pc = "outer", !.inner = inner]
    /\ UNCHANGED <<h, out, op, error, snaps, trace, snapTrace, calls>>

HmacOuter ==
    /\ hashCall.pc = "outer"
    /\ \E d \in {hmacOuter(hashCall.pad, hashCall.inner)} :
          hashCall' = [hashCall EXCEPT !.pc = "return", !.digest = d]
    /\ UNCHANGED <<h, out, op, error, snaps, trace, snapTrace, calls>>

NextHmac ==
    \/ HmacKey
    \/ HmacInner
    \/ HmacOuter

SpecHmac == InitHmac /\ [][NextHmac]_vars

(***************************************************************************)
(* Single calls of the functions of the engine, and of update on a hasher  *)
(* that has some bytes buffered.  hashCall holds the call: the function,   *)
(* its arguments, the step it is at and what it returned.                  *)
(*   safeAdd     args <<x, y>>, each word the halves <<high, low>> of its  *)
(*               32 bits                                                   *)
(*   bitLen      args the byte count n, in four 16-bit digits; the result  *)
(*               is <<bitLenHi, bitLenLo>> of finish                       *)
(*   hashBlocks  args <<p, pos, len>>, on a zeroed w and the initial v     *)
(*   update      args <<b, data, dataLength>>: update(Data(b)) on a new    *)
(*               hasher and then update(data, dataLength)                  *)
(***************************************************************************)

\* Words: 0, 1, 0x7fffffff, 0x80000000, 0xffffffff and others around them.
CallWords == {<<hi, lo>> : hi \in {0, 1, 32767, 32768, 65535}, lo \in {0, 1, 65535}}

\* Byte counts: 0, 1, around 2^29, 2^31, 2^32 and 2^53, the largest below 2^61.
CallCounts ==
    {<<0, 0, 0, 0>>, <<0, 0, 0, 1>>, <<0, 0, 0, 65535>>, <<0, 0, 8191, 65535>>,
     <<0, 0, 8192, 0>>, <<0, 0, 8192, 1>>, <<0, 0, 32767, 65535>>, <<0, 0, 32768, 0>>,
     <<0, 0, 65535, 65535>>, <<0, 1, 0, 0>>, <<0, 1, 0, 1>>, <<0, 65535, 65535, 65535>>,
     <<1, 0, 0, 0>>, <<31, 65535, 65535, 65535>>, <<32, 0, 0, 0>>,
     <<4096, 0, 0, 0>>, <<8191, 65535, 65535, 65280>>}

CallLens == {0, 1, 63, 64, 65, 127, 128, 130}

InitCalls ==
    /\ h = NewSHA1
    /\ out = <<>>
    /\ op = "new"
    /\ error = NoError
    /\ snaps = <<>>
    /\ trace = NewTrace
    /\ snapTrace = <<>>
    /\ calls = [update |-> 0, reset |-> 0, restore |-> 0]
    /\ \/ \E x \in CallWords, y \in CallWords :
             hashCall = [fn |-> "safeAdd", pc |-> "call", args |-> <<x, y>>, ret |-> <<>>]
       \/ \E n \in CallCounts :
             hashCall = [fn |-> "bitLen", pc |-> "call", args |-> n, ret |-> <<>>]
       \/ \E pos \in {0, 1, 66}, len \in CallLens :
             hashCall = [fn |-> "hashBlocks", pc |-> "call", args |-> <<Data(130), pos, len>>,
                         ret |-> <<>>]
       \/ \E b \in {0, 1, 63}, len \in CallLens, more \in {0, 2} :
             hashCall = [fn |-> "update", pc |-> "prefix",
                         args |-> <<b, Data(len), len + more>>, ret |-> <<>>]

CallSafeAdd ==
    /\ hashCall.fn = "safeAdd" /\ hashCall.pc = "call"
    /\ hashCall' = [hashCall EXCEPT !.pc = "return",
                                    !.ret = safeAdd(ToInt32(hashCall.args[1]),
                                                    ToInt32(hashCall.args[2]))]
    /\ UNCHANGED <<h, out, op, error, snaps, trace, snapTrace, calls>>

CallBitLen ==
    /\ hashCall.fn = "bitLen" /\ hashCall.pc = "call"
    /\ hashCall' = [hashCall EXCEPT !.pc = "return",
                                    !.ret = <<bitLenHi(hashCall.args), bitLenLo(hashCall.args)>>]
    /\ UNCHANGED <<h, out, op, error, snaps, trace, snapTrace, calls>>

CallHashBlocks ==
    /\ hashCall.fn = "hashBlocks" /\ hashCall.pc = "call"
    /\ \E r \in {hashBlocks(Zeros(TEMP_SIZE), initState, hashCall.args[1], hashCall.args[2],
                            hashCall.args[3])} :
          hashCall' = [hashCall EXCEPT !.pc = "return", !.ret = r]
    /\ UNCHANGED <<h, out, op, error, snaps, trace, snapTrace, calls>>

CallPrefix ==
    /\ hashCall.fn = "update" /\ hashCall.pc = "prefix"
    /\ CallUpdate(Data(hashCall.args[1]))
    /\ hashCall' = [hashCall EXCEPT !.pc = "call"]

CallTail ==
    /\ hashCall.fn = "update" /\ hashCall.pc = "call"
    /\ CallUpdateLen(hashCall.args[2], hashCall.args[3])
    /\ hashCall' = [hashCall EXCEPT !.pc = "return"]

NextCalls ==
    \/ CallSafeAdd
    \/ CallBitLen
    \/ CallHashBlocks
    \/ CallPrefix
    \/ CallTail

SpecCalls == InitCalls /\ [][NextCalls]_vars

(***************************************************************************)
(* SHA-1 as the specification states it (section 4.1 and the padding of    *)
(* section 4.2), on words that are sequences of 32 bits, the most          *)
(* significant first.  The claims compare the program with it.             *)
(***************************************************************************)

RefBits(n, width) == [i \in 1..width |-> (n \div (2 ^ (width - i))) % 2]

\* The number that the 8 bits of x after position off spell.
RefVal8(x, off) ==
    128 * x[off + 1] + 64 * x[off + 2] + 32 * x[off + 3] + 16 * x[off + 4]
    + 8 * x[off + 5] + 4 * x[off + 6] + 2 * x[off + 7] + x[off + 8]

RefVal16(x, off) == 256 * RefVal8(x, off) + RefVal8(x, off + 8)

RefWord(b1, b2, b3, b4) == RefBits(b1, 8) \o RefBits(b2, 8) \o RefBits(b3, 8) \o RefBits(b4, 8)

RefRotl(x, c) == SubSeq([i \in 1..32 |-> x[((i - 1 + c) % 32) + 1]], 1, 32)
RefXor(x, y) == SubSeq([i \in 1..32 |-> (x[i] + y[i]) % 2], 1, 32)
RefAnd(x, y) == SubSeq([i \in 1..32 |-> x[i] * y[i]], 1, 32)
RefOr(x, y) == SubSeq([i \in 1..32 |-> x[i] + y[i] - x[i] * y[i]], 1, 32)
RefNot(x) == SubSeq([i \in 1..32 |-> 1 - x[i]], 1, 32)

\* Addition modulo 2^32, in two halves of 16 bits.
RefAdd(x, y) ==
    LET lo == RefVal16(x, 16) + RefVal16(y, 16)
        hi == RefVal16(x, 0) + RefVal16(y, 0) + (lo \div 65536)
    IN RefBits(hi % 65536, 16) \o RefBits(lo % 65536, 16)

RefInit ==
    <<RefWord(103, 69, 35, 1), RefWord(239, 205, 171, 137), RefWord(152, 186, 220, 254),
      RefWord(16, 50, 84, 118), RefWord(195, 210, 225, 240)>>

RefK(i) ==
    IF i <= 19 THEN RefWord(90, 130, 121, 153)
    ELSE IF i <= 39 THEN RefWord(110, 217, 235, 161)
    ELSE IF i <= 59 THEN RefWord(143, 27, 188, 220)
    ELSE RefWord(202, 98, 193, 214)

RefF(i, b, c, d) ==
    IF i <= 19 THEN RefOr(RefAnd(b, c), RefAnd(RefNot(b), d))
    ELSE IF i <= 39 THEN RefXor(RefXor(b, c), d)
    ELSE IF i <= 59 THEN RefOr(RefOr(RefAnd(b, c), RefAnd(b, d)), RefAnd(c, d))
    ELSE RefXor(RefXor(b, c), d)

\* Slots lo .. hi - 1 of the schedule (slot i is element i + 1), appended to w.
RECURSIVE RefSchedule(_, _, _)
RefSchedule(w, lo, hi) ==
    IF hi - lo = 1
    THEN Append(w, RefRotl(RefXor(RefXor(RefXor(w[lo - 2], w[lo - 7]), w[lo - 13]), w[lo - 15]), 1))
    ELSE LET l == RefSchedule(w, lo, (lo + hi) \div 2)
         IN IF Len(l) > 0 THEN RefSchedule(l, (lo + hi) \div 2, hi) ELSE l

RefRound(w, s, i) ==
    LET temp == RefAdd(RefAdd(RefAdd(RefAdd(RefRotl(s[1], 5), RefF(i, s[2], s[3], s[4])), s[5]),
                              RefK(i)), w[i + 1])
    IN <<temp, s[1], RefRotl(s[2], 30), s[3], s[4]>>

RECURSIVE RefRounds(_, _, _, _)
RefRounds(w, s, lo, hi) ==
    IF hi - lo = 1 THEN RefRound(w, s, lo)
    ELSE LET l == RefRounds(w, s, lo, (lo + hi) \div 2)
         IN IF Len(l) > 0 THEN RefRounds(w, l, (lo + hi) \div 2, hi) ELSE l

\* One 64-byte block into the state.
RefCompress(state, block) ==
    LET w == RefSchedule(SubSeq([i \in 1..16 |-> RefWord(block[4 * i - 3], block[4 * i - 2],
                                                          block[4 * i - 1], block[4 * i])], 1, 16),
                         16, 80)
        r == RefRounds(w, state, 0, 80)
    IN <<RefAdd(state[1], r[1]), RefAdd(state[2], r[2]), RefAdd(state[3], r[3]),
         RefAdd(state[4], r[4]), RefAdd(state[5], r[5])>>

\* The four bytes of n < 2^31, high first.
BigEndian4(n) == <<(n \div 16777216) % 256, (n \div 65536) % 256, (n \div 256) % 256, n % 256>>

\* m, the terminator 0x80, zero bytes, and the bit length of m in 8 bytes, high
\* first: the shortest such sequence whose length is a multiple of 64.
Pad(m) ==
    m \o <<128>> \o Zeros((64 - ((Len(m) + 9) % 64)) % 64)
      \o <<0, 0, 0, 0>> \o BigEndian4(8 * Len(m))

RECURSIVE RefBlocks(_, _, _)
RefBlocks(state, p, k) ==
    IF 64 * k >= Len(p) THEN state
    ELSE RefBlocks(RefCompress(state, SubSeq(p, 64 * k + 1, 64 * k + 64)), p, k + 1)

\* The 20 bytes of the five state words, each high byte first.
RefDigest(m) ==
    LET state == RefBlocks(RefInit, Pad(m), 0)
    IN [i \in 1..20 |-> RefVal8(state[((i - 1) \div 4) + 1], 8 * ((i - 1) % 4))]

\* HMAC over the SHA-1 of section 4.1, as section 4.3 states it.
RefXorByte(a, c) ==
    LET x == RefBits(a, 8)
        y == RefBits(c, 8)
    IN RefVal8([i \in 1..8 |-> (x[i] + y[i]) % 2], 0)

RefHmacKey(key) ==
    LET k == IF Len(key) > 64 THEN RefDigest(key) ELSE key
    IN [i \in 1..64 |-> IF i <= Len(k) THEN k[i] ELSE 0]

RefHmac(key, data) ==
    LET pad == RefHmacKey(key)
        inner == RefDigest([i \in 1..64 |-> RefXorByte(pad[i], 54)] \o data)
    IN RefDigest([i \in 1..64 |-> RefXorByte(pad[i], 92)] \o inner)

(***************************************************************************)
(* The properties.                                                         *)
(***************************************************************************)

RECURSIVE Flatten(_)
Flatten(blocks) == IF blocks = <<>> THEN <<>> ELSE Head(blocks) \o Flatten(Tail(blocks))

\* The first DIGEST_LENGTH bytes of an array, or all of a shorter one.
DigestBytes(a) == SubSeq(a, 1, Min(Len(a), DIGEST_LENGTH))

Finishing == {"finish", "digest"}

DigestEmpty ==
    <<218, 57, 163, 238, 94, 107, 75, 13, 50, 85, 191, 239, 149, 96, 24, 144, 175, 216, 7, 9>>
DigestPair ==
    <<122, 229, 165, 193, 155, 22, 249, 238, 59, 0, 202, 54, 252, 114, 149, 54, 251, 94, 115, 7>>
DigestFirefox ==
    <<196, 226, 248, 175, 5, 183, 153, 19, 81, 152, 221, 77, 41, 243, 125, 82, 69, 167, 118, 49>>
DigestDigits ==
    <<36, 91, 227, 0, 145, 253, 57, 47, 225, 145, 244, 191, 206, 194, 45, 203, 48, 160, 58, 230>>
DigestHanazawa ==
    <<66, 17, 69, 254, 75, 53, 234, 166, 192, 207, 0, 106, 251, 56, 250, 230, 209, 210, 187, 174>>
DigestOgura ==
    <<112, 26, 5, 255, 25, 225, 15, 185, 196, 238, 39, 159, 7, 151, 12, 32, 248, 10, 205, 115>>

\* C1: chunking independence.  When a fresh hasher has been given a message in
\* any sequence of update calls (empty chunks, chunks that fill the buffer
\* exactly, chunks shorter than the room left, chunks of several blocks) and
\* then digest(), the blocks compressed, the five state words, the byte count
\* and the digest are those of a fresh hasher given the whole message in one
\* update call.
C1_ChunkingIndependence ==
    h.finished /\ op = "digest" =>
        \A one \in {hash(trace.msg)} :
            /\ trace.blocks = one.blocks
            /\ h.state = one.h.state
            /\ h.bytesHashed = one.h.bytesHashed
            /\ out = one.digest

\* A message of 64 bytes given as 1 and 63 bytes, the second filling the buffer
\* exactly, and digested.
C1_Witness ==
    /\ h.finished
    /\ op = "digest"
    /\ trace.chunks = <<1, 63>>
    /\ Len(trace.blocks) = 2
    /\ out = hash(trace.msg).digest

\* C2: hash(data) returns the 20 bytes, high byte first, of the five words that
\* the compression of section 4.1 leaves after the blocks of the padded
\* message, from the initial constants; the known answers of the tests are
\* among them.
C2_HashIsSha1 ==
    hashCall.pc = "return" =>
        /\ hashCall.digest = RefDigest(hashCall.data)
        /\ Len(hashCall.digest) = DIGEST_LENGTH
        /\ hashCall.data = <<>> => hashCall.digest = DigestEmpty
        /\ hashCall.data = <<32, 48>> => hashCall.digest = DigestPair
        /\ hashCall.data = MsgFirefox => hashCall.digest = DigestFirefox
        /\ hashCall.data = MsgDigits => hashCall.digest = DigestDigits
        /\ hashCall.data = MsgHanazawa => hashCall.digest = DigestHanazawa
        /\ hashCall.data = MsgOgura => hashCall.digest = DigestOgura

\* hash([32, 48]) has returned 7ae5a5c19b16f9ee3b00ca36fc729536fb5e7307.
C2_Witness ==
    /\ hashCall.pc = "return"
    /\ hashCall.data = <<32, 48>>
    /\ hashCall.digest = DigestPair

\* C3: finish is idempotent.  A finish or digest call on a hasher already
\* finished leaves every field of the hasher as it was, gives no block to the
\* compression engine, and writes the bytes that the call before it wrote: the
\* 20 bytes of the state words (as many of them as the array holds).
C3_FinishIdempotent ==
    [][h.finished /\ op' \in Finishing =>
          /\ h' = h
          /\ trace'.blocks = trace.blocks
          /\ DigestBytes(out') = SubSeq(WriteDigest(h.state, Zeros(DIGEST_LENGTH)), 1,
                                        Len(DigestBytes(out')))
          /\ op \in Finishing =>
                \A j \in 1..Min(Len(out), Len(DigestBytes(out'))) : out'[j] = out[j]]_vars

\* A second digest() has returned the digest of the 64 bytes hashed.
C3_Witness ==
    /\ h.finished
    /\ trace.finishes = 2
    /\ op = "digest"
    /\ Len(trace.msg) = 64
    /\ trace.padBlocks = 1

\* C4: update on a finished hasher throws, whatever the data (the empty array
\* too), and leaves every field of the hasher as it was, so that the digest a
\* later finish writes is the same.
C4_UpdateAfterFinishFails ==
    [][h.finished /\ op' = "update" =>
          /\ error' = UpdateError
          /\ h' = h
          /\ trace' = trace
          /\ finish(h', Zeros(DIGEST_LENGTH)).out = finish(h, Zeros(DIGEST_LENGTH)).out]_vars

\* update has thrown on a finished hasher.
C4_Witness ==
    /\ h.finished
    /\ op = "update"
    /\ error = UpdateError
    /\ trace.finishes > 0

\* C5: no leakage across reuse.  A hasher that was finished, reset and given a
\* second message gives the compression engine the blocks, and writes the
\* digest, of a fresh hasher given the second message: what the first message
\* and its padding left in the buffer reaches neither.
C5_NoLeakAcrossReset ==
    h.finished /\ trace.reused /\ trace.tracked /\ op \in Finishing =>
        \A one \in {hash(trace.msg)} :
            /\ trace.blocks = one.blocks
            /\ h.state = one.h.state
            /\ DigestBytes(out) = SubSeq(one.digest, 1, Len(DigestBytes(out)))

\* A hasher reused for a message of one byte and finished, its buffer still
\* holding the length field (504 bits) of the 63 bytes hashed before the reset.
C5_Witness ==
    /\ h.finished
    /\ trace.reused
    /\ trace.restored = 0
    /\ op = "digest"
    /\ Len(trace.msg) = 1
    /\ h.buffer[127] = 1
    /\ h.buffer[128] = 248

\* C6: padding.  At the first finish the blocks compressed since the last reset
\* are, end to end, the message, 0x80, zero bytes and the bit length in 8
\* bytes high first, of the least multiple of 64 bytes that holds the message
\* and 9 more bytes; that finish compresses 64 bytes when the buffered length
\* modulo 64 is below 56 and 128 bytes otherwise.
C6_Padding ==
    h.finished =>
        /\ Flatten(trace.blocks) = Pad(trace.msg)
        /\ Len(Pad(trace.msg)) % 64 = 0
        /\ Len(Pad(trace.msg)) >= Len(trace.msg) + 9
        /\ Len(Pad(trace.msg)) < Len(trace.msg) + 9 + 64
        /\ SubSeq(Pad(trace.msg), Len(Pad(trace.msg)) - 7, Len(Pad(trace.msg)))
             = <<0, 0, 0, 0>> \o BigEndian4(8 * Len(trace.msg))
        /\ 64 * trace.padBlocks = IF h.bufferLength % 64 < 56 THEN 64 ELSE 128

\* A message of 120 bytes finished: 56 bytes buffered, two blocks of padding.
C6_Witness ==
    /\ h.finished
    /\ Len(trace.msg) = 120
    /\ h.bufferLength = 56
    /\ trace.padBlocks = 2
    /\ Len(trace.blocks) = 3

\* C7: finish given an array shorter than the digest throws instead of
\* returning with part of the digest written, and nothing else throws but
\* update and saveState on a finished hasher.
C7_ShortOutputRejected ==
    /\ op = "finish" /\ Len(out) < DIGEST_LENGTH => error # NoError
    /\ error # NoError => h.finished /\ op \in {"update", "saveState"}

\* C8: saveState on a finished hasher throws, returns no snapshot and leaves
\* the hasher as it was; on a hasher not finished it returns a snapshot and
\* leaves the hasher, its finished flag too, as it was.
C8_SaveState ==
    [][op' = "saveState" =>
          /\ h' = h
          /\ h.finished => error' = SaveError /\ snaps' = snaps
          /\ ~h.finished =>
                /\ error' = NoError
                /\ Len(snaps') = Len(snaps) + 1
                /\ ~h'.finished
                /\ snaps'[Len(snaps')].state = h.state
                /\ snaps'[Len(snaps')].bufferLength = h.bufferLength
                /\ snaps'[Len(snaps')].bytesHashed = h.bytesHashed]_vars

\* saveState has thrown on a finished hasher that holds a digest of 63 bytes.
C8_Witness ==
    /\ h.finished
    /\ op = "saveState"
    /\ error = SaveError
    /\ Len(trace.msg) = 63

LifecycleStep ==
    /\ op' \in {"reset", "clean", "restoreState"} => ~h'.finished
    /\ ~h.finished /\ op' = "update" => ~h'.finished /\ error' = NoError
    /\ op' \in Finishing => h'.finished
    /\ h.finished /\ op' = "update" => h'.finished /\ error' = UpdateError

HmacKeyHelloworld ==
    <<7, 138, 158, 144, 203, 57, 211, 163, 239, 227, 73, 125, 3, 83, 98, 69, 155, 25, 123, 86>>
HmacOguraHanazawa ==
    <<92, 226, 110, 186, 119, 29, 246, 80, 227, 154, 230, 206, 6, 216, 148, 22, 120, 53, 215, 116>>
HmacPair ==
    <<119, 192, 126, 195, 234, 132, 249, 10, 89, 190, 153, 211, 6, 135, 211, 6, 234, 130, 42, 88>>

\* C11: hashWithHmac(key, data) returns H(outerPad ++ H(innerPad ++ data)),
\* H being SHA-1 and the pads the 64-byte key block XOR 0x36 and 0x5C, the
\* key block being the key padded with zeros, or the digest of a key longer
\* than 64 bytes padded with zeros: so a key longer than 64 bytes gives the
\* result of the key H(key), and the calls of the tests give the digests
\* the tests expect.
C11_Hmac ==
    hashCall.pc = "return" =>
        /\ hashCall.digest = RefHmac(hashCall.key, hashCall.data)
        /\ hashCall.digest = hashWithHmac(hashCall.key, hashCall.data)
        /\ Len(hashCall.key) > BLOCK_SIZE =>
              hashCall.digest = hashWithHmac(hash(hashCall.key).digest, hashCall.data)
        /\ (hashCall.key = MsgKey /\ hashCall.data = MsgHelloworld) =>
              hashCall.digest = HmacKeyHelloworld
        /\ (hashCall.key = MsgOgura /\ hashCall.data = MsgHanazawa) =>
              hashCall.digest = HmacOguraHanazawa
        /\ (hashCall.key = <<32, 48>> /\ hashCall.data = <<32, 49>>) =>
              hashCall.digest = HmacPair

C11_Witness ==
    /\ hashCall.pc = "return"
    /\ Len(hashCall.key) > BLOCK_SIZE
    /\ Len(hashCall.data) = BLOCK_SIZE
    /\ hashCall.digest = RefHmac(RefDigest(hashCall.key), hashCall.data)
    /\ hashCall.digest # RefHmac(SubSeq(hashCall.key, 1, BLOCK_SIZE), hashCall.data)

C13_Clean ==
    [][op' = "clean" =>
          /\ h'.buffer = Zeros(BUFFER_SIZE)
          /\ h'.temp = Zeros(TEMP_SIZE)
          /\ h'.bufferLength = 0
          /\ h'.bytesHashed = 0
          /\ ~h'.finished
          /\ h'.state = initState
          /\ h' = NewSHA1]_vars

\* clean() was called on a Finished hasher.
C13_Witness ==
    /\ op = "clean"
    /\ trace.reused
    /\ h = NewSHA1

\* C14: the state words are changed by the compression of whole blocks only.
\* An update that does not complete a block (the buffer length before it plus
\* its length is below 64) leaves the five state words as they were and gives
\* no block to the engine; while the hasher is Active the number of blocks
\* given to the engine is floor(bytesHashed / 64); and the state words are at
\* all times those the engine yields from the initial constants over the
\* blocks given to it so far, in order.
C14_WholeBlocks ==
    /\ [](~h.finished => Len(trace.blocks) = h.bytesHashed \div BLOCK_SIZE)
    /\ [](h.state = hashBlocks(Zeros(TEMP_SIZE), initState, Flatten(trace.blocks), 0,
                               BLOCK_SIZE * Len(trace.blocks)).v)
    /\ [][(op' = "update" /\ error' = NoError
             /\ h.bufferLength + (Len(trace'.msg) - Len(trace.msg)) < BLOCK_SIZE) =>
               (h'.state = h.state /\ trace'.blocks = trace.blocks)]_vars

\* 63 bytes and then 65: the second update completes the buffered block and
\* gives the engine one more block straight from its data.
C14_Witness ==
    /\ ~h.finished
    /\ trace.chunks = <<63, 65>>
    /\ Len(trace.blocks) = 2
    /\ h.bufferLength = 0
    /\ h.state # initState

\* C15: hashBlocks(w, v, p, pos, len) with len >= 0 consumes floor(len / 64)
\* whole blocks, the k-th being p[pos + 64k .. pos + 64k + 63], in increasing
\* order (the words it returns are those of section 4.1 over these bytes end
\* to end); it returns pos + 64 * floor(len / 64); what it returns does not
\* depend on any byte of p at or past that position.  And after
\* update(data, n) on a hasher holding b bytes, the blocks given to the engine
\* are the whole 64-byte blocks of the b + n bytes, and the bytes that are left
\* over, fewer than 64, are the ones in the buffer.
C15_HashBlocks ==
    /\ (hashCall.fn = "hashBlocks" /\ hashCall.pc = "return") =>
          LET p == hashCall.args[1]
              pos == hashCall.args[2]
              len == hashCall.args[3]
              k == len \div 64
              r == hashCall.ret
              consumed == [i \in 1..(64 * k) |-> At(p, pos + i - 1)]
              ref == RefBlocks(RefInit, consumed, 0)
              other == [i \in 1..Len(p) |-> IF i > pos + 64 * k THEN 255 - p[i] ELSE p[i]]
          IN /\ Len(r.read) = k
             /\ \A j \in 1..k : r.read[j] = [i \in 1..64 |-> At(p, pos + 64 * (j - 1) + i - 1)]
             /\ r.pos = pos + 64 * k
             /\ WriteDigest(r.v, Zeros(DIGEST_LENGTH))
                  = [i \in 1..20 |-> RefVal8(ref[((i - 1) \div 4) + 1], 8 * ((i - 1) % 4))]
             /\ r.v = hashBlocks(Zeros(TEMP_SIZE), initState, other, pos, len).v
    /\ (hashCall.fn = "update" /\ hashCall.pc = "return") =>
          LET total == hashCall.args[1] + hashCall.args[3]
              left == total % 64
          IN /\ Len(trace.msg) = total
             /\ Len(trace.blocks) = total \div 64
             /\ h.bufferLength = left
             /\ Flatten(trace.blocks) \o SubSeq(h.buffer, 1, left) = trace.msg

\* hashBlocks was given 130 bytes from position 1 of an array and consumed two
\* blocks.
C15_Witness ==
    /\ hashCall.fn = "hashBlocks"
    /\ hashCall.pc = "return"
    /\ hashCall.args[2] = 1
    /\ hashCall.args[3] = 130
    /\ Len(hashCall.ret.read) = 2
    /\ hashCall.ret.pos = 129

\* C16: the length field of finish is the exact bit length in 64 bits.  For a
\* byte count n below 2^61, as for n >= 2^29 and n >= 2^32, the high word
\* bitLenHi and the low word bitLenLo, read as unsigned 32-bit values, make
\* bitLenHi * 2^32 + bitLenLo = 8 * n (compared digit by digit in base 2^16);
\* and for n below 2^31 they are the two words that finish writes.
C16_BitLength ==
    (hashCall.fn = "bitLen" /\ hashCall.pc = "return") =>
        LET n == hashCall.args
            hi == hashCall.ret[1]
            lo == hashCall.ret[2]
            e0 == 8 * n[4]
            e1 == 8 * n[3] + e0 \div 65536
            e2 == 8 * n[2] + e1 \div 65536
            e3 == 8 * n[1] + e2 \div 65536
        IN /\ e3 < 65536
           /\ <<(hi \div 65536) % 65536, hi % 65536, (lo \div 65536) % 65536, lo % 65536>>
                = <<e3, e2 % 65536, e1 % 65536, e0 % 65536>>
           /\ (n[1] = 0 /\ n[2] = 0 /\ n[3] < 32768) =>
                 /\ hi = TruncDiv(65536 * n[3] + n[4], 536870912)
                 /\ lo = Shl(65536 * n[3] + n[4], 3)

\* n = 2^32 + 1: the high word is 8 and the low word is 8.
C16_Witness ==
    /\ hashCall.fn = "bitLen"
    /\ hashCall.pc = "return"
    /\ hashCall.args = <<0, 1, 0, 1>>
    /\ hashCall.ret = <<8, 8>>

\* C17: safeAdd is addition modulo 2^32.  For words x and y given by their 32
\* bits, the result is the Int32 value whose 32 bits are those of x + y (sum
\* of the unsigned values, digit by digit in base 2^16 with the carry); as
\* signed values, it is x + y when that is an Int32 value, and x + y - 2^32 or
\* x + y + 2^32 otherwise: never the largest or smallest value in its place.
C17_SafeAdd ==
    (hashCall.fn = "safeAdd" /\ hashCall.pc = "return") =>
        LET x == hashCall.args[1]
            y == hashCall.args[2]
            sx == ToInt32(x)
            sy == ToInt32(y)
            r == hashCall.ret
            s0 == x[2] + y[2]
            s1 == x[1] + y[1] + s0 \div 65536
        IN /\ r >= MinInt32 /\ r <= 2147483647
           /\ <<(r \div 65536) % 65536, r % 65536>> = <<s1 % 65536, s0 % 65536>>
           /\ r = IF sx > 0 /\ sy > 0 /\ sx > 2147483647 - sy
                  THEN (sx + MinInt32) + (sy + MinInt32)
                  ELSE IF sx < 0 /\ sy < 0 /\ sx < MinInt32 - sy
                  THEN (sx - MinInt32) + (sy - MinInt32)
                  ELSE sx + sy

\* 0x7fffffff + 1 = 0x80000000, the smallest Int32 value.
C17_Witness ==
    /\ hashCall.fn = "safeAdd"
    /\ hashCall.pc = "return"
    /\ hashCall.args = <<<<32767, 65535>>, <<0, 1>>>>
    /\ hashCall.ret = MinInt32

\* C18: the buffer.  While the hasher is Active, 0 <= bufferLength < 64,
\* bufferLength = bytesHashed mod 64, and the first bufferLength bytes of the
\* buffer are the last bufferLength bytes given to update so far; and no
\* update or finish stores to the buffer at an index of 128 or more.
C18_Buffer ==
    /\ trace.wrote < BUFFER_SIZE
    /\ Len(h.buffer) = BUFFER_SIZE
    /\ ~h.finished =>
          /\ h.bufferLength >= 0
          /\ h.bufferLength < BLOCK_SIZE
          /\ h.bufferLength = h.bytesHashed % BLOCK_SIZE
          /\ h.bufferLength <= Len(trace.msg)
          /\ SubSeq(h.buffer, 1, h.bufferLength)
               = SubSeq(trace.msg, Len(trace.msg) - h.bufferLength + 1, Len(trace.msg))

\* A hasher that a finish of two padding blocks had written up to index 127
\* of the buffer, Active again with its 63 bytes after restoreState.
C18_Witness ==
    /\ op = "restoreState"
    /\ trace.revived
    /\ ~h.finished
    /\ h.bufferLength = 63
    /\ h.bytesHashed = 63
    /\ h.buffer[63] = trace.msg[63]

\* C19: a snapshot shares no storage with the hasher.  What the snapshots hold
\* (state words, buffer, buffer length, byte count) is the same after an
\* update, finish, digest, reset, clean or restoreState on the hasher as
\* before it; restoreState leaves the hasher with the state words, the buffer
\* length, the byte count and, when the snapshot has one, the buffer of the
\* snapshot, whatever the hasher held and however often the snapshot was
\* restored before; cleanSavedState changes nothing in the hasher.
C19_SnapshotIndependence ==
    [][/\ op' \in {"update", "finish", "digest", "reset", "clean", "restoreState"} =>
             /\ Len(snaps') = Len(snaps)
             /\ \A i \in 1..Len(snaps) : Contents(snaps'[i], h') = Contents(snaps[i], h)
       /\ op' = "restoreState" =>
             \A s \in {Contents(snaps[trace'.restored], h)} :
                /\ h'.state = s.state
                /\ h'.bufferLength = s.bufferLength
                /\ h'.bytesHashed = s.bytesHashed
                /\ h'.buffer = IF s.buffer # NoBuffer THEN s.buffer ELSE h.buffer
                /\ ~h'.finished
       /\ op' = "cleanSavedState" => h' = h]_vars

\* The snapshot, taken with 2 bytes buffered, restored for the second time, on
\* a hasher that had been finished since.
C19_Witness ==
    /\ op = "restoreState"
    /\ calls.restore = 2
    /\ trace.revived
    /\ ~snapTrace[trace.restored].wiped
    /\ h.bufferLength = 2
    /\ h.state = snaps[trace.restored].state
    /\ h.buffer = snaps[trace.restored].buffer

====
